---- MODULE Spec2Model ----
(***************************************************************************)
(* cdrs-tokio, cluster/connection_pool.rs: the per-node connection pool,   *)
(* its construction, connection selection, bulk repair, and the background *)
(* tasks the factory spawns for it (failure monitor with its repair loop,  *)
(* heartbeat loop, keyspace watcher).                                      *)
(*                                                                         *)
(* A connection is modelled by what the pool can observe of it: the value  *)
(* is_broken() returns.  pool[i] = TRUE means the connection in slot i     *)
(* reports broken.  A connection never heals; repair replaces it.          *)
(***************************************************************************)
EXTENDS Integers, Sequences, FiniteSets, TLC

\* ----------------------------------------------------------------- bounds
\* Largest desired_size (config.local_size / config.remote_size) explored.
MaxSize == 3
\* Width in bits of the selection cursor: usize scaled down from 64 bits.
UsizeBits == 3
\* Most delays one reconnection schedule hands out before it returns None.
MaxDelays == 2
\* Most connection breakages explored in one behaviour.
MaxBreaks == 2
\* Largest desired_size explored with the background tasks running.
MaxLive == 2

UsizeModulus == 2 ^ UsizeBits

VARIABLES
    \* ConnectionPool
    desired_size,        \* ConnectionPool.desired_size
    pool,                \* ConnectionPool.pool: Seq(BOOLEAN), is_broken() per slot
    current_index,       \* ConnectionPool.current_index (AtomicUsize)
    channel,             \* failure signals queued on the mpsc channel
    lock,                \* the RwLock around pool: [writer, readers]
    \* strong owners (the session / cluster registry)
    poolOwned,           \* the Arc<ConnectionPool> create() returned is held
    nodeOwned,           \* the Arc<Node> is held
    managerOwned,        \* the factory's Arc<CM> is held
    nodeState,           \* Node.state(): "Up" | "Down" | "ForcedDown"
    \* ConnectionPoolFactory::create / ConnectionPool::new
    newPc,               \* "dialing" | "created" | "failed"
    dials,               \* outcome of each construction dial
    \* connection()
    selPc,               \* "idle" | "scan"
    index,               \* local index
    first_index,         \* local first_index
    selResult,           \* NoResult | Err | Ok(slot)
    reported,            \* what each slot reported when this call examined it
    atCall,              \* pool as it was when the call took the lock
    history,             \* [slot, cursor] of the caller's last Len(pool) calls
    anyUp,               \* "none" | "true" | "false": what the last
                         \* is_any_connection_up() returned
    breaks,              \* breakages so far
    \* monitor_connections
    monPc,               \* "unspawned" | "recv" | "check" | "flag" | "stopped"
    reconnection_state,  \* the Atomic<ReconnectionState> shared with the repair task
    monLog,              \* "none" | why the monitor left its loop
    markedDown,          \* the monitor has called mark_down() and no
                         \* reconnect_broken() has returned Ok(true) since
    \* the repair task: run_reconnection_loop and reconnect_broken
    loopPc,              \* "none" | "next_delay" | "sleep" | "lock" | "scan" | "dial"
                         \* | "fill" | "returned"
    delaysLeft,          \* delays the schedule may still hand out
    rbSlot,              \* slot reconnect_broken's first loop is at
    rbResult,            \* result of the last reconnect_broken call
    rb,                  \* record of the last reconnect_broken call (see RbFresh)
    loopLog,             \* what the running repair loop has done so far
    tails,               \* repair tasks per stage: "InProgress" counts the tasks
                         \* whose loop is running, the other entries how many
                         \* stored that state and still owe the Node its transition
    \* start_heartbeat
    hbPc,                \* "unspawned" | "tick" | "lock" | "send" | "stopped"
    hbIdx,               \* next slot to send the keepalive to
    hbLog,               \* the state the last tick read; whether the Node was ever
                         \* forced down
    \* keyspace watcher
    ksPc,                \* "unspawned" | "watch" | "lock" | "write" | "stopped"
    ksTargets,           \* connections the broadcast still has to write to
    ksLog                \* the last broadcast: the list when filtered, requests
                         \* written per slot, writes that failed

poolVars == <<desired_size, pool, current_index, channel, lock>>
ownerVars == <<poolOwned, nodeOwned, managerOwned>>
newVars == <<newPc, dials>>
selVars == <<selPc, index, first_index, selResult, reported, atCall, history, anyUp>>
monVars == <<monPc, reconnection_state, monLog, markedDown>>
repVars == <<loopPc, delaysLeft, rbSlot, rbResult, rb, loopLog, tails>>
hbVars == <<hbPc, hbIdx, hbLog>>
ksVars == <<ksPc, ksTargets, ksLog>>
taskVars == <<monVars, repVars, hbVars, ksVars>>
vars == <<poolVars, ownerVars, nodeState, newVars, selVars, breaks, taskVars>>

\* ---------------------------------------------------------------- helpers
Min(a, b) == IF a < b THEN a ELSE b

\* All sequences over S of length at most n.
SeqsUpTo(S, n) == UNION {[1..k -> S] : k \in 0..n}

\* The last n elements of sequence h.
LastN(h, n) == IF Len(h) <= n THEN h ELSE SubSeq(h, Len(h) - n + 1, Len(h))

\* CdrsResult<Arc<T>> of connection(): the slot stands for the connection.
NoResult == [kind |-> "none", slot |-> 0]
Err == [kind |-> "err", slot |-> 0]
Ok(i) == [kind |-> "ok", slot |-> i]

NumBroken(p) == Cardinality({i \in 1..Len(p) : p[i]})
SomeBroken(p) == \E i \in 1..Len(p) : p[i]
AllBroken(p) == \A i \in 1..Len(p) : p[i]

ReadLock(t) == [lock EXCEPT !.readers = @ \cup {t}]
ReadUnlock(t) == [lock EXCEPT !.readers = @ \ {t}]
CanRead == ~lock.writer
CanWriteBesideReaders == ~lock.writer
CanWrite == ~lock.writer /\ lock.readers = {}

\* mpsc::channel(capacity): a send into a full queue does not enqueue.
Capacity == desired_size
Enqueue(n) == Min(n + 1, Capacity)

\* ------------------------------------------------------------- connection()
\* current_index.fetch_add(1): wrapping addition on usize.
FetchAddStuck(c) == c
FetchAdd(c) == (c + 1) % UsizeModulus

\* index = (index + 1) % pool_len
NextIndexNoWrap(i, len) == IF i + 1 < len THEN i + 1 ELSE i
NextIndex(i, len) == (i + 1) % len

\* The call takes the shared lock, reads the length and fixes its start.
\* Slots are 0-based in index / first_index as in the code; pool[index + 1].
ConnectionBegin ==
    /\ newPc = "created" /\ poolOwned
    /\ selPc = "idle"
    /\ CanRead
    /\ atCall' = pool
    /\ reported' = [i \in 1..Len(pool) |-> "unasked"]
    /\ IF Len(pool) = 0
       THEN /\ selResult' = Err
            /\ history' = <<>>
            /\ UNCHANGED <<selPc, index, first_index, current_index, lock>>
       ELSE /\ index' = current_index % Len(pool)
            /\ first_index' = current_index % Len(pool)
            /\ current_index' = FetchAdd(current_index)
            /\ selResult' = NoResult
            /\ selPc' = "scan"
            /\ lock' = ReadLock("caller")
            /\ history' = history
    /\ UNCHANGED <<desired_size, pool, channel, ownerVars, nodeState, newVars, breaks,
                   anyUp, taskVars>>

\* One turn of the loop: examine pool[index], return it or move on.
ConnectionScan ==
    /\ selPc = "scan"
    /\ IF ~pool[index + 1]
       THEN /\ reported' = [reported EXCEPT ![index + 1] = "ok"]
            /\ selResult' = Ok(index)
            /\ selPc' = "idle"
            /\ lock' = ReadUnlock("caller")
            /\ history' = LastN(Append(history, [slot |-> index, cursor |-> (current_index + UsizeModulus - 1) % UsizeModulus]), Len(pool))
            /\ UNCHANGED <<index>>
       ELSE /\ reported' = [reported EXCEPT ![index + 1] = "broken"]
            /\ index' = NextIndex(index, Len(pool))
            /\ IF NextIndex(index, Len(pool)) = first_index
               THEN /\ selResult' = Err
                    /\ selPc' = "idle"
                    /\ lock' = ReadUnlock("caller")
                    /\ history' = <<>>
               ELSE UNCHANGED <<selResult, selPc, lock, history>>
    /\ UNCHANGED <<desired_size, pool, current_index, channel, first_index, atCall,
                   ownerVars, nodeState, newVars, breaks, anyUp, taskVars>>

\* ------------------------------------------------- is_any_connection_up()
\* for connection in connections.deref() { if !connection.is_broken() ... }
AnyUp(p) == \E i \in 1..Len(p) : ~p[i]

\* self.pool.read().await, then the scan, which has no await in it: the
\* guard is taken and dropped within the step.
IsAnyConnectionUp ==
    /\ newPc = "created" /\ poolOwned
    /\ CanRead
    /\ anyUp' = IF AnyUp(pool) THEN "true" ELSE "false"
    /\ UNCHANGED <<poolVars, ownerVars, nodeState, newVars, selPc, index, first_index,
                   selResult, reported, atCall, history, breaks, taskVars>>

\* --------------------------------------------------- records of a call
NoCall == [managerResolved |-> TRUE, locked |-> FALSE, dials |-> 0,
           atStart |-> <<>>, brokeDuring |-> {}]
NoLoopLog == [delays |-> 0, attempts |-> 0, gone |-> FALSE]
NoBroadcast == [atFilter |-> <<>>, written |-> <<>>, failed |-> 0]

\* ------------------------------------------------------ weak references
\* A Weak upgrades while the owner or a task holds a strong reference.  The
\* monitor holds the Node for one iteration and the Pool for its all-down
\* check; the repair loop holds the Pool across reconnect_broken; heartbeat
\* and watcher hold what they upgraded until the iteration ends.
PoolResolves ==
    \/ poolOwned
    \/ monPc = "check"
    \/ loopPc \in {"lock", "scan", "dial", "fill"}
    \/ hbPc \in {"lock", "send"}
    \/ ksPc \in {"lock", "write"}
    \/ selPc = "scan"

NodeResolves ==
    \/ nodeOwned
    \/ monPc \in {"check", "flag"}
    \/ hbPc \in {"lock", "send"}

ManagerResolves == managerOwned \/ loopPc \in {"lock", "scan", "dial", "fill"}

\* Node's transition operations.
MarkUp == "Up"
MarkDown == "Down"
ForceDown == "ForcedDown"

\* ----------------------------------------------------------- new_connection
\* With a connect_timeout the dial is raced against the timer: an elapsed
\* timer gives Error::Timeout, otherwise the manager's own result stands.
ManagerResults == {"ok", "general", "protocol"}
NewConnection(timedOut, result) == IF timedOut THEN "timeout" ELSE result

\* --------------------------------------- ConnectionPool::new and create()
IsConnection(d) == d \in {"ok", "broken"}

\* filter_map: Ok kept, InvalidProtocol kept as the error, other errors dropped.
KeptNoFatal(d) == IsConnection(d)
Kept(d) == IsConnection(d) \/ d = "protocol"

\* try_collect fails on the first Err left in the sequence.
HasFatal(ds) == \E i \in 1..Len(ds) : Kept(ds[i]) /\ ~IsConnection(ds[i])

Collected(ds) ==
    LET conns == SelectSeq(ds, IsConnection)
    IN  [i \in 1..Len(conns) |-> conns[i] = "broken"]

\* if pool.len() != desired_size { error_sender.try_send(..) }
NeedsRepairIfEmpty(len) == len = 0
NeedsRepair(len) == len # desired_size

TrySendOk(n) == n < Capacity

\* One of the desired_size dials join_all drives completes.
NewDial(i, timedOut, result) ==
    /\ newPc = "dialing"
    /\ i \in 1..desired_size /\ dials[i] = "pending"
    /\ dials' = [dials EXCEPT ![i] = NewConnection(timedOut, result)]
    /\ UNCHANGED <<poolVars, ownerVars, nodeState, newPc, selVars, breaks, taskVars>>

\* A connection already dialed goes down before construction ends.
BreakDialed(i) ==
    /\ newPc = "dialing"
    /\ breaks < MaxBreaks
    /\ i \in 1..desired_size /\ dials[i] = "ok"
    /\ dials' = [dials EXCEPT ![i] = "broken"]
    /\ channel' = Enqueue(channel)
    /\ breaks' = breaks + 1
    /\ UNCHANGED <<desired_size, pool, current_index, lock, ownerVars, nodeState, newPc,
                   selVars, taskVars>>

\* join_all is complete: new() collects, notifies and returns; create()
\* spawns the monitor, the heartbeat and the keyspace watcher.
CreateFinish ==
    /\ newPc = "dialing"
    /\ \A i \in 1..desired_size : dials[i] # "pending"
    /\ IF HasFatal(dials)
       THEN /\ newPc' = "failed"
            /\ UNCHANGED <<pool, channel, monPc, hbPc, ksPc, dials>>
       ELSE /\ newPc' = "created"
            /\ pool' = Collected(dials)
            /\ channel' = IF NeedsRepair(Len(Collected(dials))) /\ TrySendOk(channel)
                          THEN channel + 1
                          ELSE channel
            /\ monPc' = "recv"
            /\ hbPc' = "tick"
            /\ ksPc' = "watch"
            /\ dials' = <<>>
    /\ UNCHANGED <<desired_size, current_index, lock, ownerVars, nodeState, selVars,
                   breaks, reconnection_state, monLog, markedDown, repVars, hbIdx, hbLog, ksTargets,
                   ksLog>>

\* ------------------------------------------------------- owners letting go
DropPool ==
    /\ newPc = "created" /\ poolOwned /\ selPc = "idle"
    /\ poolOwned' = FALSE
    /\ UNCHANGED <<poolVars, nodeOwned, managerOwned, nodeState, newVars, selVars, breaks,
                   taskVars>>

DropNode ==
    /\ newPc = "created" /\ nodeOwned
    /\ nodeOwned' = FALSE
    /\ UNCHANGED <<poolVars, poolOwned, managerOwned, nodeState, newVars, selVars, breaks,
                   taskVars>>

DropManager ==
    /\ newPc = "created" /\ managerOwned
    /\ managerOwned' = FALSE
    /\ UNCHANGED <<poolVars, poolOwned, nodeOwned, nodeState, newVars, selVars, breaks,
                   taskVars>>

\* ------------------------------------------------------------ environment
\* A connection of the list goes down; its transport reports the failure on
\* the error_handler it was dialed with.
BreakConnection(i) ==
    /\ newPc = "created" /\ PoolResolves
    /\ breaks < MaxBreaks
    /\ i \in 1..Len(pool) /\ ~pool[i]
    /\ pool' = [pool EXCEPT ![i] = TRUE]
    /\ channel' = Enqueue(channel)
    /\ breaks' = breaks + 1
    /\ rb' = IF lock.writer THEN [rb EXCEPT !.brokeDuring = @ \cup {i}] ELSE rb
    /\ UNCHANGED <<desired_size, current_index, lock, ownerVars, nodeState, newVars, selVars,
                   monVars, loopPc, delaysLeft, rbSlot, rbResult, loopLog, tails,
                   hbVars, ksVars>>

\* ---------------------------------------------------- monitor_connections
\* receiver.recv() yields a signal; the Node and the Pool are upgraded and
\* the Node's state is read.
\* if node.state() == NodeState::ForcedDown { break; }
MonitorGivesUpNever(state) == FALSE
MonitorGivesUp(state) == state = "ForcedDown"

MonitorRecv ==
    /\ monPc = "recv"
    /\ channel > 0
    /\ channel' = channel - 1
    /\ monLog' = IF ~NodeResolves THEN "node gone"
                 ELSE IF MonitorGivesUp(nodeState) THEN "forced down"
                 ELSE IF ~PoolResolves THEN "pool gone"
                 ELSE monLog
    /\ monPc' = IF monLog' # monLog THEN "stopped" ELSE "check"
    /\ UNCHANGED <<desired_size, pool, current_index, lock, ownerVars, nodeState, newVars,
                   selVars, breaks, reconnection_state, markedDown, repVars, hbVars,
                   ksVars>>

\* Every sender is gone (the Pool and its connections were dropped) and the
\* queue is empty: recv() yields None.
MonitorRecvClosed ==
    /\ monPc = "recv"
    /\ channel = 0 /\ ~PoolResolves
    /\ monPc' = "stopped"
    /\ monLog' = "closed"
    /\ UNCHANGED <<poolVars, ownerVars, nodeState, newVars, selVars, breaks,
                   reconnection_state, markedDown, repVars, hbVars, ksVars>>

\* are_all_connections_down under the shared lock, then node.mark_down().
MonitorCheck ==
    /\ monPc = "check"
    /\ CanRead
    /\ nodeState' = IF AllBroken(pool) THEN MarkDown ELSE nodeState
    /\ markedDown' = (markedDown \/ AllBroken(pool))
    /\ monPc' = "flag"
    /\ UNCHANGED <<poolVars, ownerVars, newVars, selVars, breaks, reconnection_state,
                   monLog, repVars, hbVars, ksVars>>

\* reconnection_policy.new_node_schedule()
NewSchedule == MaxDelays

\* The debounce: load the flag; unless it reads NotRunning skip (InProgress)
\* or stop (Disabled); otherwise store InProgress and spawn the repair task.
\* if state != ReconnectionState::NotRunning { .. continue; }
MaySpawnUnlessDisabled(state) == state # "Disabled"
MaySpawnAlways(state) == TRUE
MaySpawn(state) == state = "NotRunning"

MonitorFlag ==
    /\ monPc = "flag"
    /\ IF ~MaySpawn(reconnection_state)
       THEN /\ monPc' = IF reconnection_state = "Disabled" THEN "stopped" ELSE "recv"
            /\ monLog' = IF reconnection_state = "Disabled" THEN "disabled" ELSE monLog
            /\ UNCHANGED <<reconnection_state, repVars>>
       ELSE /\ reconnection_state' = "InProgress"
            /\ monPc' = "recv"
            /\ UNCHANGED monLog
            /\ loopPc' = "next_delay"
            /\ delaysLeft' = NewSchedule
            /\ loopLog' = NoLoopLog
            /\ tails' = [tails EXCEPT !["InProgress"] = @ + 1]
            /\ UNCHANGED <<rbSlot, rbResult, rb>>
    /\ UNCHANGED <<poolVars, ownerVars, nodeState, newVars, selVars, breaks, markedDown,
                   hbVars, ksVars>>

\* -------------------------------------------------- run_reconnection_loop
\* The loop returns new_state and the task stores it into the flag; the
\* Node's transition is still owed (tails).
Finish(new_state) ==
    /\ reconnection_state' = new_state
    /\ tails' = [tails EXCEPT ![new_state] = @ + 1,
                              !["InProgress"] = @ - 1]
    /\ UNCHANGED loopLog
    /\ loopPc' = "none"

\* next_delay() returned None on a fresh schedule or later.
ScheduleEndsAsSuccess == "NotRunning"
ScheduleEnds == "Disabled"

\* reconnection_schedule.next_delay(): Some(delay) starts the sleep, None
\* ends the loop.
LoopNextDelay(some) ==
    /\ loopPc = "next_delay"
    /\ IF some
       THEN /\ delaysLeft > 0
            /\ delaysLeft' = delaysLeft - 1
            /\ loopPc' = "sleep"
            /\ loopLog' = [loopLog EXCEPT !.delays = @ + 1]
            /\ UNCHANGED <<reconnection_state, tails>>
       ELSE /\ Finish(ScheduleEnds)
            /\ delaysLeft' = 0
    /\ UNCHANGED <<poolVars, ownerVars, nodeState, newVars, selVars, breaks, monPc, monLog, markedDown,
                   rbSlot, rbResult, rb, hbVars, ksVars>>

\* if let Some(connection_manager) = self.connection_manager.upgrade()
ManagerAlwaysThere == TRUE
ManagerUpgrade == ManagerResolves

\* The sleep is over: upgrade the Pool (gone: Disabled) and enter
\* reconnect_broken, which upgrades the manager (gone: Ok(false)) and then
\* waits for the exclusive lock.
\* let pool = match pool.upgrade() { None => return Disabled, .. }
LoopPoolAlwaysThere == TRUE
LoopPoolUpgrade == PoolResolves

LoopWake ==
    /\ loopPc = "sleep"
    /\ IF ~LoopPoolUpgrade
       THEN /\ Finish("Disabled")
            /\ delaysLeft' = 0
            /\ UNCHANGED <<rbResult, rb>>
       ELSE /\ loopLog' = [loopLog EXCEPT !.attempts = @ + 1,
                                          !.gone = @ \/ ~ManagerUpgrade]
            /\ rb' = [managerResolved |-> ManagerResolves, locked |-> FALSE, dials |-> 0,
                      atStart |-> pool, brokeDuring |-> {}]
            /\ IF ManagerUpgrade
               THEN /\ loopPc' = "lock"
                    /\ rbResult' = "none"
               ELSE /\ loopPc' = "returned"
                    /\ rbResult' = "false"
            /\ UNCHANGED <<reconnection_state, tails, delaysLeft>>
    /\ UNCHANGED <<poolVars, ownerVars, nodeState, newVars, selVars, breaks, monPc, monLog, markedDown,
                   rbSlot, hbVars, ksVars>>

\* ------------------------------------------------------- reconnect_broken
\* self.pool.write().await
RbLock ==
    /\ loopPc = "lock"
    /\ CanWrite
    /\ lock' = [lock EXCEPT !.writer = TRUE]
    /\ loopPc' = "scan"
    /\ rbSlot' = 1
    /\ rb' = [rb EXCEPT !.locked = TRUE]
    /\ UNCHANGED <<desired_size, pool, current_index, channel, ownerVars, nodeState,
                   newVars, selVars, breaks, monVars, delaysLeft, rbResult, loopLog, tails,
                   hbVars, ksVars>>

\* The call returns: the guard is dropped with it.
RbReturn(result) ==
    /\ lock' = [lock EXCEPT !.writer = FALSE]
    /\ loopPc' = "returned"
    /\ rbResult' = result

\* if connection.is_broken() { .. }
MustRedialNever(broken) == FALSE
MustRedial(broken) == broken

\* 1. try to reconnect broken: the loop looks at the next slot.
RbScan ==
    /\ loopPc = "scan"
    /\ IF rbSlot > Len(pool)
       THEN loopPc' = "fill" /\ UNCHANGED rbSlot
       ELSE IF MustRedial(pool[rbSlot])
            THEN loopPc' = "dial" /\ UNCHANGED rbSlot
            ELSE loopPc' = "scan" /\ rbSlot' = rbSlot + 1
    /\ UNCHANGED <<poolVars, ownerVars, nodeState, newVars, selVars, breaks, monVars,
                   delaysLeft, rbResult, rb, loopLog, tails, hbVars, ksVars>>

\* The dial for the broken slot completes: the slot is replaced, or the
\* error aborts the call.
RbDial(timedOut, result) ==
    /\ loopPc = "dial"
    /\ LET outcome == NewConnection(timedOut, result) IN
       IF outcome = "ok"
       THEN /\ pool' = [pool EXCEPT ![rbSlot] = FALSE]
            /\ rbSlot' = rbSlot + 1
            /\ loopPc' = "scan"
            /\ rb' = [rb EXCEPT !.dials = @ + 1, !.brokeDuring = @ \ {rbSlot}]
            /\ UNCHANGED <<lock, rbResult>>
       ELSE /\ RbReturn(outcome)
            /\ rb' = [rb EXCEPT !.dials = @ + 1]
            /\ UNCHANGED <<pool, rbSlot>>
    /\ UNCHANGED <<desired_size, current_index, channel, ownerVars, nodeState, newVars,
                   selVars, breaks, monVars, delaysLeft, loopLog, tails, hbVars, ksVars>>

\* for _ in pool.len()..self.desired_size
FillMoreOneTooMany(len) == len <= desired_size
FillMore(len) == len < desired_size

\* 2. try to fill missing: one more dial completes, or the list is full and
\* the call returns Ok(true).
RbFill(timedOut, result) ==
    /\ loopPc = "fill"
    /\ FillMore(Len(pool))
    /\ LET outcome == NewConnection(timedOut, result) IN
       IF outcome = "ok"
       THEN /\ pool' = Append(pool, FALSE)
            /\ rb' = [rb EXCEPT !.dials = @ + 1]
            /\ UNCHANGED <<lock, loopPc, rbResult>>
       ELSE /\ RbReturn(outcome)
            /\ rb' = [rb EXCEPT !.dials = @ + 1]
            /\ UNCHANGED pool
    /\ UNCHANGED <<desired_size, current_index, channel, ownerVars, nodeState, newVars,
                   selVars, breaks, monVars, delaysLeft, rbSlot, loopLog, tails, hbVars,
                   ksVars>>

RbSuccess ==
    /\ loopPc = "fill"
    /\ ~FillMore(Len(pool))
    /\ RbReturn("true")
    /\ markedDown' = FALSE
    /\ UNCHANGED <<desired_size, pool, current_index, channel, ownerVars, nodeState,
                   newVars, selVars, breaks, monPc, reconnection_state, monLog, delaysLeft,
                   rbSlot, rb, loopLog, tails, hbVars, ksVars>>

\* match pool.reconnect_broken().await { .. }
VerdictErrorsDisable(result) ==
    CASE result = "true" -> "NotRunning"
      [] result = "false" -> "continue"
      [] OTHER -> "Disabled"

VerdictRetriesOnSuccess(result) ==
    CASE result = "protocol" -> "Disabled"
      [] OTHER -> "continue"

Verdict(result) ==
    CASE result = "true" -> "NotRunning"
      [] result = "protocol" -> "Disabled"
      [] OTHER -> "continue"

LoopHandle ==
    /\ loopPc = "returned"
    /\ IF Verdict(rbResult) = "continue"
       THEN /\ loopPc' = "next_delay"
            /\ UNCHANGED <<reconnection_state, tails, delaysLeft, loopLog>>
       ELSE /\ Finish(Verdict(rbResult))
            /\ delaysLeft' = 0
    /\ rbResult' = "none" /\ rb' = NoCall /\ rbSlot' = 0
    /\ UNCHANGED <<poolVars, ownerVars, nodeState, newVars, selVars, breaks, monPc, monLog, markedDown,
                   hbVars, ksVars>>

\* What the finished task does to the Node it can still upgrade.
TailTransition(state, old) ==
    CASE state = "Disabled" -> ForceDown
      [] state = "NotRunning" -> MarkUp
      [] OTHER -> old

\* A finished repair task gives the Node its transition.
TailApply(state) ==
    /\ tails[state] > 0
    /\ tails' = [tails EXCEPT ![state] = @ - 1]
    /\ nodeState' = IF NodeResolves
                    THEN TailTransition(state, nodeState)
                    ELSE nodeState
    /\ hbLog' = [hbLog EXCEPT !.forced = @ \/ nodeState' = "ForcedDown"]
    /\ UNCHANGED <<poolVars, ownerVars, newVars, selVars, breaks, monVars, loopPc,
                   delaysLeft, rbSlot, rbResult, rb, loopLog, hbPc, hbIdx, ksVars>>

\* --------------------------------------------------------- start_heartbeat
\* interval.tick(): upgrade the Node and read its state; ForcedDown stops
\* the loop, Up upgrades the Pool, anything else waits for the next tick.
TickStopsNever(state) == FALSE
TickStops(state) == state = "ForcedDown"
TickProceeds(state) == state = "Up"

HbTick ==
    /\ hbPc = "tick"
    /\ IF ~NodeResolves
       THEN hbPc' = "stopped" /\ UNCHANGED hbLog
       ELSE /\ hbLog' = [hbLog EXCEPT !.state = nodeState]
            /\ hbPc' = IF TickStops(nodeState) THEN "stopped"
                       ELSE IF TickProceeds(nodeState)
                            THEN (IF PoolResolves THEN "lock" ELSE "stopped")
                            ELSE "tick"
    /\ UNCHANGED <<poolVars, ownerVars, nodeState, newVars, selVars, breaks, monVars,
                   repVars, hbIdx, ksVars>>

\* pool.pool.read().await
HbLock ==
    /\ hbPc = "lock"
    /\ CanRead
    /\ lock' = ReadLock("heartbeat")
    /\ hbPc' = "send"
    /\ hbIdx' = 1
    /\ UNCHANGED <<desired_size, pool, current_index, channel, ownerVars, nodeState,
                   newVars, selVars, breaks, monVars, repVars, hbLog, ksVars>>

\* connection.write_envelope(&envelope, false).await for the next
\* connection of the list, broken or not; an error is only logged.
HbSend(ok) ==
    /\ hbPc = "send"
    /\ hbIdx <= Len(pool)
    /\ hbIdx' = hbIdx + 1
    /\ UNCHANGED <<poolVars, ownerVars, nodeState, newVars, selVars, breaks, monVars,
                   repVars, hbPc, hbLog, ksVars>>

\* The for loop is over: the guard is dropped, the next tick awaited.
HbDone ==
    /\ hbPc = "send"
    /\ hbIdx > Len(pool)
    /\ lock' = ReadUnlock("heartbeat")
    /\ hbPc' = "tick"
    /\ hbIdx' = 0
    /\ UNCHANGED <<desired_size, pool, current_index, channel, ownerVars, nodeState,
                   newVars, selVars, breaks, monVars, repVars, hbLog, ksVars>>

\* --------------------------------------------------------- keyspace watcher
\* .filter(|connection| !connection.is_broken())
KsFilterAll(broken) == TRUE
KsFilter(broken) == ~broken

\* keyspace_receiver.changed() fires with the new value; the Pool is
\* upgraded; a present keyspace goes on to the broadcast.
KsChanged(present) ==
    /\ ksPc = "watch"
    /\ ksPc' = IF ~PoolResolves THEN "stopped"
               ELSE IF present THEN "lock" ELSE "watch"
    /\ UNCHANGED <<poolVars, ownerVars, nodeState, newVars, selVars, breaks, monVars,
                   repVars, hbVars, ksTargets, ksLog>>

\* The keyspace sender is dropped: changed() returns Err.
KsClosed ==
    /\ ksPc = "watch"
    /\ ksPc' = "stopped"
    /\ UNCHANGED <<poolVars, ownerVars, nodeState, newVars, selVars, breaks, monVars,
                   repVars, hbVars, ksTargets, ksLog>>

\* pool.pool.read().await, then join_all collects one write per connection
\* that passes the filter.
KsLock ==
    /\ ksPc = "lock"
    /\ CanRead
    /\ lock' = ReadLock("keyspace")
    /\ ksTargets' = {i \in 1..Len(pool) : KsFilter(pool[i])}
    /\ ksLog' = [atFilter |-> pool, written |-> [i \in 1..Len(pool) |-> 0], failed |-> 0]
    /\ ksPc' = "write"
    /\ UNCHANGED <<desired_size, pool, current_index, channel, ownerVars, nodeState,
                   newVars, selVars, breaks, monVars, repVars, hbVars>>

\* One of the concurrent write_envelope calls completes; an error is logged.
KsWrite(i, ok) ==
    /\ ksPc = "write"
    /\ i \in ksTargets
    /\ ksTargets' = ksTargets \ {i}
    /\ ksLog' = [ksLog EXCEPT !.written[i] = @ + 1,
                              !.failed = IF ok THEN @ ELSE @ + 1]
    /\ UNCHANGED <<poolVars, ownerVars, nodeState, newVars, selVars, breaks, monVars,
                   repVars, hbVars, ksPc>>

\* join_all is complete: the guard is dropped, the next change awaited.
KsDone ==
    /\ ksPc = "write"
    /\ ksTargets = {}
    /\ lock' = ReadUnlock("keyspace")
    /\ ksPc' = "watch"
    /\ UNCHANGED <<desired_size, pool, current_index, channel, ownerVars, nodeState,
                   newVars, selVars, breaks, monVars, repVars, hbVars, ksTargets, ksLog>>

\* -------------------------------------------------- initial task state
InitTasks(mon, hb, ks) ==
    /\ monPc = mon
    /\ reconnection_state = "NotRunning" /\ monLog = "none" /\ markedDown = FALSE
    /\ loopPc = "none" /\ delaysLeft = 0 /\ rbSlot = 0
    /\ rbResult = "none" /\ rb = NoCall /\ loopLog = NoLoopLog
    /\ tails = [state \in {"InProgress", "NotRunning", "Disabled"} |-> 0]
    /\ hbPc = hb /\ hbIdx = 0 /\ hbLog = [state |-> "none", forced |-> FALSE]
    /\ ksPc = ks /\ ksTargets = {} /\ ksLog = NoBroadcast

\* ------------------------------------------- specification: selection only
InitSel ==
    /\ desired_size \in 1..MaxSize
    /\ pool \in SeqsUpTo(BOOLEAN, desired_size)
    /\ current_index \in 0..(UsizeModulus - 1)
    /\ channel = 0
    /\ lock = [writer |-> FALSE, readers |-> {}]
    /\ poolOwned = TRUE /\ nodeOwned = TRUE /\ managerOwned = TRUE
    /\ nodeState = "Up"
    /\ newPc = "created"
    /\ dials = <<>>
    /\ selPc = "idle" /\ index = 0 /\ first_index = 0
    /\ selResult = NoResult
    /\ reported = <<>> /\ atCall = <<>>
    /\ history = <<>> /\ anyUp = "none"
    /\ breaks = 0
    /\ InitTasks("recv", "tick", "watch")

NextSel ==
    \/ ConnectionBegin
    \/ ConnectionScan
    \/ \E i \in 1..MaxSize : BreakConnection(i)

SpecSel == InitSel /\ [][NextSel]_vars

\* --------------------------------------- specification: the pool's lifecycle
InitWith(size) ==
    /\ desired_size \in 1..size
    /\ pool = <<>>
    /\ current_index = 0
    /\ channel = 0
    /\ lock = [writer |-> FALSE, readers |-> {}]
    /\ poolOwned = TRUE /\ nodeOwned = TRUE /\ managerOwned = TRUE
    /\ nodeState = "Up"
    /\ newPc = "dialing"
    /\ dials = [i \in 1..desired_size |-> "pending"]
    /\ selPc = "idle" /\ index = 0 /\ first_index = 0
    /\ selResult = NoResult
    /\ reported = <<>> /\ atCall = <<>>
    /\ history = <<>> /\ anyUp = "none"
    /\ breaks = 0
    /\ InitTasks("unspawned", "unspawned", "unspawned")

Repair ==
    \/ \E some \in BOOLEAN : LoopNextDelay(some)
    \/ LoopWake
    \/ RbLock
    \/ RbScan
    \/ \E t \in BOOLEAN, r \in ManagerResults : RbDial(t, r)
    \/ \E t \in BOOLEAN, r \in ManagerResults : RbFill(t, r)
    \/ RbSuccess
    \/ LoopHandle
    \/ \E state \in {"NotRunning", "Disabled"} : TailApply(state)

Monitor ==
    \/ MonitorRecv
    \/ MonitorRecvClosed
    \/ MonitorCheck
    \/ MonitorFlag

Next ==
    \/ \E i \in 1..MaxSize, t \in BOOLEAN, r \in ManagerResults : NewDial(i, t, r)
    \/ \E i \in 1..MaxSize : BreakDialed(i)
    \/ CreateFinish
    \/ \E i \in 1..MaxSize : BreakConnection(i)
    \/ DropPool
    \/ DropNode
    \/ DropManager
    \/ Monitor
    \/ Repair

Init == InitWith(MaxLive)

Spec == Init /\ [][Next]_vars

\* ----------------------------------------- specification: construction only
InitNew == InitWith(MaxSize)

NextNew ==
    \/ \E i \in 1..MaxSize, t \in BOOLEAN, r \in ManagerResults : NewDial(i, t, r)
    \/ \E i \in 1..MaxSize : BreakDialed(i)
    \/ CreateFinish

SpecNew == InitNew /\ [][NextNew]_vars

\* ------------------------------------ a constructed pool, tasks just spawned
InitBuilt(size) ==
    /\ desired_size \in 1..size
    /\ pool \in SeqsUpTo(BOOLEAN, desired_size)
    /\ current_index = 0
    /\ channel = Min(Capacity, NumBroken(pool) + (IF Len(pool) < desired_size THEN 1 ELSE 0))
    /\ lock = [writer |-> FALSE, readers |-> {}]
    /\ poolOwned = TRUE /\ nodeOwned = TRUE /\ managerOwned = TRUE
    /\ nodeState = "Up"
    /\ newPc = "created"
    /\ dials = <<>>
    /\ selPc = "idle" /\ index = 0 /\ first_index = 0
    /\ selResult = NoResult
    /\ reported = <<>> /\ atCall = <<>>
    /\ history = <<>> /\ anyUp = "none"
    /\ breaks = 0
    /\ InitTasks("recv", "tick", "watch")

\* ------------------------------------------ specification: keyspace watcher
Keyspace ==
    \/ \E present \in BOOLEAN : KsChanged(present)
    \/ KsClosed
    \/ KsLock
    \/ \E i \in 1..MaxSize, ok \in BOOLEAN : KsWrite(i, ok)
    \/ KsDone

NextKs ==
    \/ Keyspace
    \/ \E i \in 1..MaxSize : BreakConnection(i)
    \/ DropPool

SpecKs == InitBuilt(MaxSize) /\ [][NextKs]_vars

\* ------------------------------------------------ specification: heartbeat
Heartbeat ==
    \/ HbTick
    \/ HbLock
    \/ \E ok \in BOOLEAN : HbSend(ok)
    \/ HbDone

\* The heartbeat beside the monitor and the repair task of a pool and a Node
\* that stay held, so the failure channel never closes.
NextHb ==
    \/ Heartbeat
    \/ MonitorRecv
    \/ MonitorCheck
    \/ MonitorFlag
    \/ Repair
    \/ \E i \in 1..MaxLive : BreakConnection(i)

SpecHb == InitBuilt(MaxLive) /\ [][NextHb]_vars

\* ------------------------------------- specification: the owners letting go
\* The four background tasks of a constructed pool, some of whose
\* connections may have broken already, while the owners drop the Pool and
\* the Node.
NextDrop ==
    \/ Heartbeat
    \/ Keyspace
    \/ Monitor
    \/ Repair
    \/ DropPool
    \/ DropNode

SpecDrop == InitBuilt(MaxLive - 1) /\ [][NextDrop]_vars

\* ------------------------------------------- specification: the list's lock
\* Every reader of the list beside the repair task that rewrites it; the
\* writes of the heartbeat and the watcher succeed, the dials of the repair
\* succeed or fail with a transient error.
NextLock ==
    \/ ConnectionBegin
    \/ ConnectionScan
    \/ IsAnyConnectionUp
    \/ HbTick
    \/ HbLock
    \/ HbSend(TRUE)
    \/ HbDone
    \/ KsChanged(TRUE)
    \/ KsLock
    \/ \E i \in 1..MaxLive : KsWrite(i, TRUE)
    \/ KsDone
    \/ MonitorRecv
    \/ MonitorCheck
    \/ MonitorFlag
    \/ \E some \in BOOLEAN : LoopNextDelay(some)
    \/ LoopWake
    \/ RbLock
    \/ RbScan
    \/ \E r \in {"ok", "general"} : RbDial(FALSE, r)
    \/ \E r \in {"ok", "general"} : RbFill(FALSE, r)
    \/ RbSuccess
    \/ LoopHandle
    \/ \E state \in {"NotRunning", "Disabled"} : TailApply(state)

SpecLock == InitBuilt(MaxLive) /\ [][NextLock]_vars

\* ------------------------------- specification: a repair that can succeed
\* The Pool, the Node and the manager stay held, the schedule always has a
\* delay to give when asked, no dial meets an incompatible protocol, and a
\* dial fails only while the schedule of the bounded model has a delay left,
\* so that no loop sees dials fail for ever.
DialOutcomes == {"ok", "general"}
MayFail(timedOut, result) == NewConnection(timedOut, result) = "ok" \/ delaysLeft > 0

LiveDial == \E t \in BOOLEAN, r \in DialOutcomes : MayFail(t, r) /\ RbDial(t, r)
LiveFill == \E t \in BOOLEAN, r \in DialOutcomes : MayFail(t, r) /\ RbFill(t, r)

NextLive ==
    \/ MonitorRecv
    \/ MonitorCheck
    \/ MonitorFlag
    \/ LoopNextDelay(TRUE)
    \/ LoopWake
    \/ RbLock
    \/ RbScan
    \/ LiveDial
    \/ LiveFill
    \/ RbSuccess
    \/ LoopHandle
    \/ TailApply("NotRunning")
    \/ HbTick
    \/ HbLock
    \/ HbSend(TRUE)
    \/ HbDone
    \/ \E i \in 1..MaxLive : BreakConnection(i)

\* The runtime runs every task that can take its step; the sleep and the
\* keepalive writes complete; tokio's RwLock is fair, so a writer that
\* waits is granted the lock although readers come and go.
FairLive ==
    /\ WF_vars(LoopNextDelay(TRUE))
    /\ WF_vars(LoopWake)
    /\ SF_vars(RbLock)
    /\ WF_vars(RbScan)
    /\ WF_vars(LiveDial)
    /\ WF_vars(LiveFill)
    /\ WF_vars(RbSuccess)
    /\ WF_vars(LoopHandle)
    /\ WF_vars(TailApply("NotRunning"))
    /\ WF_vars(HbSend(TRUE))
    /\ WF_vars(HbDone)

SpecLive == InitBuilt(MaxLive) /\ [][NextLive]_vars /\ FairLive

\* ------------------------------------------------------ claims: selection
Returned == selPc = "idle" /\ selResult # NoResult

\* C1: connection() returns the "no active connections" error exactly when
\* every entry of the list reported broken when the call examined it (the
\* empty list included); otherwise it returns an entry of the list that
\* reported not-broken when examined.  A list wholly broken when the call
\* takes the lock always yields the error, and when no connection breaks
\* during the call the error is returned exactly when the list was wholly
\* broken at that moment.
C1_ErrorIffAllBroken ==
    Returned =>
        /\ (selResult = Err) <=> (\A i \in 1..Len(atCall) : reported[i] = "broken")
        /\ selResult.kind = "ok" =>
              /\ selResult.slot + 1 \in 1..Len(pool)
              /\ reported[selResult.slot + 1] = "ok"
              /\ ~atCall[selResult.slot + 1]
        /\ AllBroken(atCall) => selResult = Err
        /\ pool = atCall => ((selResult = Err) <=> AllBroken(atCall))

\* The error after a scan that started in the middle of a list of three and
\* wrapped around, one entry having broken during the call.
C1_Witness ==
    /\ Returned /\ selResult = Err
    /\ Len(pool) = 3 /\ first_index = 1
    /\ ~AllBroken(atCall)

AllDistinct(h) == \A j, k \in 1..Len(h) : j # k => h[j].slot # h[k].slot

\* The cursor values of the calls in h follow each other without wrapping.
NoWrap(h) == \A k \in 2..Len(h) : h[k].cursor = h[k - 1].cursor + 1

FullCycle ==
    /\ selPc = "idle"
    /\ Len(pool) >= 1
    /\ \A i \in 1..Len(pool) : ~pool[i]
    /\ Len(history) = Len(pool)

\* C2 as stated: N consecutive calls on N healthy connections, from any
\* cursor value, return N pairwise distinct connections.
C2_Original == FullCycle => AllDistinct(history)

\* C2 amended: the same, provided the cursor does not wrap around the
\* largest usize value within those N calls, or N divides 2^64.
C2_DistinctWithoutWrap ==
    (FullCycle /\ (NoWrap(history) \/ UsizeModulus % Len(pool) = 0))
        => AllDistinct(history)

\* Three calls on three healthy connections starting from a cursor that is
\* neither zero nor a multiple of three.
C2_Witness ==
    /\ FullCycle /\ Len(pool) = 3 /\ NoWrap(history)
    /\ history[1].cursor % 3 = 2

\* ---------------------------------------------------- claims: repair call
ReturnsTrue == loopPc # "returned" /\ loopPc' = "returned" /\ rbResult' = "true"

\* C3 as stated: whenever reconnect_broken() returns success=true, at that
\* moment the list has length desired_size and no entry reports broken.
C3_Original ==
    [][ReturnsTrue =>
          /\ Len(pool') = desired_size
          /\ \A i \in 1..Len(pool') : ~pool'[i]]_vars

\* C3 amended: whenever reconnect_broken() returns success=true, at that
\* moment the list has length desired_size and every entry reports
\* not-broken unless it became broken during the call, after the call had
\* examined or redialed it.
C3_HealthyUnlessBrokeDuring ==
    [][ReturnsTrue =>
          /\ Len(pool') = desired_size
          /\ \A i \in 1..Len(pool') : pool'[i] => i \in rb.brokeDuring]_vars

\* A call that redialed, returned true and holds an entry that broke
\* meanwhile.
C3_Witness ==
    /\ loopPc = "returned" /\ rbResult = "true"
    /\ rb.dials >= 1
    /\ rb.brokeDuring # {}
    /\ Len(pool) = desired_size

\* C4: reconnect_broken() returns Ok(false) exactly when the weak reference
\* to the connection manager did not resolve when the call started; it then
\* dialed nothing, never held the exclusive lock and left the list as it
\* was (no slot replaced, none added).
C4_ManagerGone ==
    loopPc = "returned" =>
        /\ (rbResult = "false") <=> ~rb.managerResolved
        /\ rbResult = "false" =>
              /\ rb.dials = 0
              /\ ~rb.locked
              /\ ~lock.writer
              /\ Len(pool) = Len(rb.atStart)
              /\ \A i \in 1..Len(pool) : rb.atStart[i] => pool[i]

\* The manager is gone while the list is short of a connection and holds a
\* broken one.
C4_Witness ==
    /\ loopPc = "returned" /\ rbResult = "false"
    /\ Len(pool) < desired_size
    /\ \E i \in 1..Len(pool) : pool[i]

\* ---------------------------------------------------- claims: repair loop
FirstDelayNone == loopPc = "next_delay" /\ loopLog.delays = 0 /\ loopPc' = "none"
DisabledTailRuns == tails'["Disabled"] < tails["Disabled"]

\* C5: when the first next_delay() of a repair loop returns None the loop
\* ends with Disabled without a sleep, a reconnect_broken() call or a dial,
\* the flag becomes Disabled, and the task then forces the Node down if the
\* Node still resolves.
C5_FirstNoneDisables ==
    [][/\ FirstDelayNone =>
             /\ reconnection_state' = "Disabled"
             /\ tails'["Disabled"] = tails["Disabled"] + 1
             /\ loopLog'.attempts = 0 /\ loopLog'.delays = 0
             /\ pool' = pool /\ lock' = lock
       /\ DisabledTailRuns /\ NodeResolves => nodeState' = "ForcedDown"
       /\ DisabledTailRuns /\ ~NodeResolves => nodeState' = nodeState]_vars

\* The only loop so far got None at once; its task has forced the Node down.
C5_Witness ==
    /\ loopPc = "none" /\ loopLog = NoLoopLog
    /\ reconnection_state = "Disabled"
    /\ tails["Disabled"] = 0 /\ tails["NotRunning"] = 0
    /\ nodeState = "ForcedDown"

\* --------------------------------------------------- claims: construction
NumDialed(ds, kinds) == Cardinality({i \in 1..Len(ds) : ds[i] \in kinds})
ConstructionEnds == newPc = "dialing" /\ newPc' # "dialing"
SomeFatal == \E i \in 1..Len(dials) : dials[i] = "protocol"

\* C6: construction in which k < desired_size dials succeed and no failed
\* dial is InvalidProtocol returns a pool holding exactly the k connections
\* and places exactly one notification on the failure channel; with all
\* dials successful it places none.
C6_PartialConstruction ==
    [][ConstructionEnds /\ ~SomeFatal =>
          /\ newPc' = "created"
          /\ Len(pool') = NumDialed(dials, {"ok", "broken"})
          /\ Cardinality({i \in 1..Len(pool') : pool'[i]}) = NumDialed(dials, {"broken"})
          /\ channel' = IF NumDialed(dials, {"ok", "broken"}) < desired_size
                        THEN channel + 1
                        ELSE channel]_vars

\* desired_size = 3, two connections, one notification.
C6_Witness ==
    /\ newPc = "created" /\ desired_size = 3
    /\ pool = <<FALSE, FALSE>>
    /\ channel = 1

\* C7: if a construction dial returns InvalidProtocol, construction fails
\* whatever the other dials returned: no pool is built and neither the
\* monitor, the heartbeat nor the keyspace watcher is ever started.
C7_FatalConstruction ==
    /\ [][ConstructionEnds /\ SomeFatal => newPc' = "failed"]_vars
    /\ [](newPc = "failed" =>
             /\ pool = <<>>
             /\ monPc = "unspawned" /\ hbPc = "unspawned" /\ ksPc = "unspawned"
             /\ loopPc = "none" /\ reconnection_state = "NotRunning")
    /\ [](newPc = "created" => monPc # "unspawned")

\* One fatal dial beside a successful one.
C7_Witness ==
    /\ newPc = "failed" /\ desired_size = 2
    /\ \E i, j \in 1..2 : dials[i] = "protocol" /\ dials[j] = "ok"

\* C8: the connection list never holds more than desired_size entries.
C8_LengthBounded == Len(pool) <= desired_size

\* A repair call that found the list short and filled it up.
C8_Witness ==
    /\ loopPc = "returned" /\ rbResult = "true"
    /\ Len(rb.atStart) < desired_size
    /\ Len(pool) = desired_size

\* ------------------------------------------------ claims: keyspace watcher
\* C9: a broadcast issues exactly one select-keyspace request to every
\* connection that reported not-broken when the list was filtered and none
\* to a broken one, whether or not other writes fail.
C9_BroadcastToHealthy ==
    ksLog # NoBroadcast =>
        /\ Len(ksLog.written) = Len(pool)
        /\ \A i \in 1..Len(pool) :
              ksLog.written[i] + (IF i \in ksTargets THEN 1 ELSE 0)
                  = (IF ksLog.atFilter[i] THEN 0 ELSE 1)
        /\ ksPc # "write" => ksTargets = {}

\* [healthy, broken, healthy]: two requests, one of which failed.
C9_Witness ==
    /\ ksPc = "watch"
    /\ ksLog.atFilter = <<FALSE, TRUE, FALSE>>
    /\ ksLog.written = <<1, 0, 1>>
    /\ ksLog.failed = 1

\* ------------------------------------------------------ claims: heartbeat
HbSends == hbPc = "send" /\ hbIdx' = hbIdx + 1

\* C10 as stated: once the Node has been forced down the heartbeat loop
\* sends no further keepalive.
C10_Original == [][HbSends => ~hbLog.forced]_vars

\* C10 amended: the heartbeat loop stops for good at the first tick at which
\* it reads the Node's state as ForcedDown and sends keepalives only within
\* a tick at which it read Up; the keepalives of a tick already in progress
\* when the Node is forced down are still sent.
C10_StopsAtForcedTick ==
    /\ [](hbLog.state = "ForcedDown" => hbPc = "stopped")
    /\ [][/\ HbSends => hbLog.state = "Up"
          /\ hbPc = "stopped" => hbPc' = "stopped"
          /\ hbPc = "tick" /\ hbPc' = "lock" => nodeState = "Up"]_vars

\* The loop read ForcedDown at a tick and stopped for good, the Node
\* still being held.
C10_Witness ==
    /\ hbPc = "stopped" /\ hbLog.state = "ForcedDown"
    /\ nodeState = "ForcedDown" /\ nodeOwned
    /\ Len(pool) >= 1

\* ------------------------------------------------ claims: the debounce flag
Spawns == tails'["InProgress"] > tails["InProgress"]

C12_FlagTransitions ==
    /\ [](monPc = "unspawned" => reconnection_state = "NotRunning")
    /\ [][/\ reconnection_state' # reconnection_state =>
                \/ /\ reconnection_state = "NotRunning"
                   /\ reconnection_state' = "InProgress"
                   /\ monPc = "flag" /\ Spawns
                \/ /\ reconnection_state = "InProgress"
                   /\ reconnection_state' \in {"NotRunning", "Disabled"}
                   /\ loopPc # "none" /\ loopPc' = "none"
          /\ reconnection_state = "Disabled" =>
                /\ reconnection_state' = "Disabled"
                /\ ~Spawns /\ loopPc' = "none"]_vars

\* The monitor reads the flag as Disabled with a further signal queued
\* behind the one it is processing.
C12_Witness ==
    /\ monPc = "flag" /\ reconnection_state = "Disabled"
    /\ channel > 0

\* ----------------------------------------- claims: the repair loop's verdicts
\* C13: once reconnect_broken() has returned the manager-gone result, the
\* loop that called it makes no further reconnect_broken() attempt and does
\* not end with Disabled.
C13_Original ==
    [][loopLog.gone /\ loopPc # "none" =>
          /\ loopLog'.attempts = loopLog.attempts
          /\ reconnection_state' # "Disabled"]_vars

\* ------------------------------------------- claims: the owners letting go
\* A wake of one of the four tasks.
HbWakes == HbTick
LoopWakes == LoopWake
MonitorWakes == MonitorRecv
KsWakes == \E present \in BOOLEAN : KsChanged(present)

\* C14 as stated: once the Pool or the Node no longer resolves, each task
\* stops at its next wake, whatever the Node's state and the flag: the
\* heartbeat at its tick, the repair loop when its delay is over, the
\* monitor at its next signal, the watcher at its next keyspace change.
C14_Original ==
    [][~PoolResolves \/ ~NodeResolves =>
          /\ HbWakes => hbPc' = "stopped"
          /\ LoopWakes => loopPc' = "none"
          /\ MonitorWakes => monPc' = "stopped"
          /\ KsWakes => ksPc' = "stopped"]_vars

\* C14 amended: each task stops at the first wake at which a weak reference
\* it tries to resolve fails.  The heartbeat stops at a tick at which the
\* Node does not resolve, or the Pool does not resolve and the Node does not
\* read Down; the repair loop ends with Disabled when its delay is over and
\* the Pool does not resolve; the monitor stops at a signal at which the
\* Node or the Pool does not resolve, and when the channel closes; the
\* watcher stops at a keyspace change at which the Pool does not resolve.
C14_StopsOnOwnReference ==
    [][/\ HbWakes /\ ~NodeResolves => hbPc' = "stopped"
       /\ HbWakes /\ ~PoolResolves /\ nodeState # "Down" => hbPc' = "stopped"
       /\ HbWakes /\ NodeResolves /\ ~PoolResolves /\ nodeState = "Down" => hbPc' = "tick"
       /\ LoopWakes /\ ~PoolResolves =>
             loopPc' = "none" /\ reconnection_state' = "Disabled"
       /\ LoopWakes /\ PoolResolves => loopPc' \in {"lock", "returned"}
       /\ MonitorWakes /\ (~PoolResolves \/ ~NodeResolves) => monPc' = "stopped"
       /\ MonitorRecvClosed => monPc' = "stopped"
       /\ KsWakes /\ ~PoolResolves => ksPc' = "stopped"
       /\ KsWakes /\ PoolResolves => ksPc' # "stopped"]_vars

\* The owner dropped the Pool and kept the Node: the four tasks have
\* stopped, the repair loop having been asleep when the Pool went.
C14_Witness ==
    /\ ~poolOwned /\ nodeOwned
    /\ hbPc = "stopped" /\ monPc = "stopped" /\ ksPc = "stopped"
    /\ loopPc = "none" /\ loopLog.delays >= 1 /\ loopLog.attempts = 0
    /\ reconnection_state = "Disabled"

\* ------------------------------------------------- claims: the Node's state
\* C15: when a repair loop has ended with Disabled and the Node resolves,
\* the task sets the Node to ForcedDown, and from then on no task of the
\* pool changes the Node's state to Down or Up.
C15_Original ==
    [][/\ DisabledTailRuns /\ NodeResolves => nodeState' = "ForcedDown"
       /\ nodeState = "ForcedDown" => nodeState' = "ForcedDown"]_vars

\* ------------------------------------- claims: failures during a repair
\* A successful attempt ends its loop while the list holds a connection that
\* died during the attempt; Pool, Node and monitor are still there.
EndsWithDeadConnection ==
    /\ loopPc = "returned" /\ rbResult = "true" /\ loopPc' = "none"
    /\ \E i \in rb.brokeDuring : pool[i]
    /\ poolOwned /\ nodeOwned /\ monPc # "stopped"

\* C16: a connection that dies during a repair attempt which then returns
\* success gets a new repair loop without a further failure signal: when
\* the loop ends, the connection's signal is still queued or the monitor is
\* still processing it, so that the monitor reads the flag as NotRunning
\* and spawns.  (With the queue empty and the monitor back at recv() only a
\* new signal can start a loop.)
C16_Original ==
    [][EndsWithDeadConnection => channel > 0 \/ monPc \in {"check", "flag"}]_vars

\* ------------------------------------------- claims: dial errors in a repair
DialErrors == {"timeout", "general", "protocol"}

\* C17: a dial error inside reconnect_broken() ends the call at once with
\* that error as its result, no slot replaced or added by the failed dial
\* and the lock released.  In the loop a Timeout or other non-protocol error
\* ends only the attempt: the flag stays InProgress and the loop asks the
\* schedule again; a delay returned leads to a sleep and, with the Pool
\* still resolving, to another reconnect_broken() attempt.  InvalidProtocol
\* ends the loop with Disabled.
C17_DialErrors ==
    [][/\ \A t \in BOOLEAN, r \in ManagerResults :
             (RbDial(t, r) \/ RbFill(t, r)) /\ NewConnection(t, r) # "ok" =>
                 /\ loopPc' = "returned"
                 /\ rbResult' = NewConnection(t, r)
                 /\ pool' = pool
                 /\ rb'.dials = rb.dials + 1
                 /\ ~lock'.writer
       /\ loopPc = "returned" /\ rbResult \in {"timeout", "general"} /\ loopPc' # loopPc =>
             /\ loopPc' = "next_delay"
             /\ reconnection_state' = "InProgress"
             /\ tails' = tails
       /\ loopPc = "returned" /\ rbResult = "protocol" /\ loopPc' # loopPc =>
             /\ loopPc' = "none"
             /\ reconnection_state' = "Disabled"
       /\ loopPc = "next_delay" /\ loopPc' # loopPc /\ loopPc' # "none" =>
             /\ loopPc' = "sleep"
             /\ loopLog'.delays = loopLog.delays + 1
       /\ loopPc = "sleep" /\ loopPc' # loopPc /\ PoolResolves =>
             /\ loopPc' \in {"lock", "returned"}
             /\ loopLog'.attempts = loopLog.attempts + 1]_vars

\* The second attempt of a loop whose first attempt ended with a transient
\* error has failed in its turn, after one successful redial.
C17_Witness ==
    /\ loopPc = "returned" /\ rbResult \in {"timeout", "general"}
    /\ loopLog.attempts = 2
    /\ rb.dials = 2

\* ------------------------------------------------- claims: the list's lock
\* A slot is replaced or an entry is added.
Mutates ==
    \/ Len(pool') # Len(pool)
    \/ \E i \in 1..Len(pool) : pool[i] /\ ~pool'[i]

\* C18: the list is mutated only by reconnect_broken() holding the
\* exclusive lock; connection(), the monitor's all-down check, the
\* heartbeat send and the keyspace broadcast read it holding the shared
\* lock; while the exclusive lock is held no reader holds the shared lock
\* or reads, so none sees the list between the first replacement of a call
\* and its return; and at most one reconnect_broken() call runs at a time.
C18_LockDiscipline ==
    /\ [](/\ lock.writer => lock.readers = {}
          /\ lock.writer <=> loopPc \in {"scan", "dial", "fill"}
          /\ ("caller" \in lock.readers) <=> selPc = "scan"
          /\ ("heartbeat" \in lock.readers) <=> hbPc = "send"
          /\ ("keyspace" \in lock.readers) <=> ksPc = "write"
          /\ tails["InProgress"] <= 1)
    /\ [][/\ Mutates =>
                /\ lock.writer /\ lock'.writer
                /\ loopPc \in {"dial", "fill"}
          /\ lock.writer =>
                /\ UNCHANGED <<selVars, current_index, hbIdx, ksTargets, ksLog>>
                /\ monPc = "check" => monPc' = "check"
          /\ monPc = "check" /\ monPc' = "flag" => ~lock.writer
          /\ anyUp' # anyUp =>
                /\ ~lock.writer
                /\ anyUp' = "true" <=> \E i \in 1..Len(pool) : ~pool[i]]_vars

\* reconnect_broken() has replaced the first slot and is dialing for the
\* second while the monitor, the heartbeat and the watcher all wait for the
\* shared lock.
C18_Witness ==
    /\ lock.writer /\ loopPc = "dial" /\ rbSlot = 2 /\ rb.dials = 1
    /\ monPc = "check" /\ hbPc = "lock" /\ ksPc = "lock"
    /\ anyUp = "false"

\* ------------------------------------------------- claims: the monitor
\* The monitor takes a signal off the queue.
ProcessesSignal == monPc = "recv" /\ channel' = channel - 1

\* C19: a monitor that processes a signal and finds the Node ForcedDown
\* stops without marking the Node, changing the flag or spawning a repair
\* task; a stopped monitor stays stopped and no repair loop starts after it,
\* whatever signals arrive and whatever the Node's state becomes.
C19_MonitorStops ==
    [][/\ ProcessesSignal /\ NodeResolves /\ nodeState = "ForcedDown" =>
             /\ monPc' = "stopped"
             /\ nodeState' = nodeState
             /\ reconnection_state' = reconnection_state
             /\ ~Spawns /\ UNCHANGED repVars
       /\ monPc = "stopped" =>
             /\ monPc' = "stopped"
             /\ ~Spawns
             /\ reconnection_state' # "InProgress" \/ reconnection_state = "InProgress"
             /\ loopPc = "none" => loopPc' = "none"]_vars

\* The monitor stopped on reading ForcedDown; since then the Node has left
\* ForcedDown, and no loop runs.
C19_Witness ==
    /\ monPc = "stopped" /\ monLog = "forced down"
    /\ nodeState # "ForcedDown" /\ NodeResolves
    /\ loopPc = "none" /\ tails["InProgress"] = 0

\* C20: a pass of the monitor that reaches the all-down check marks the
\* Node Down exactly when every connection of the list is broken at the
\* check, an empty list included, and otherwise leaves the Node as it is;
\* the check starts no repair loop and changes no flag; the pass then
\* starts a repair loop exactly when the flag reads NotRunning, whatever the
\* Node's state.
C20_MarksDownIffAllBroken ==
    [][/\ monPc = "check" /\ monPc' # "check" =>
             /\ (\A i \in 1..Len(pool) : pool[i]) => nodeState' = "Down"
             /\ (\E i \in 1..Len(pool) : ~pool[i]) => nodeState' = nodeState
             /\ monPc' = "flag"
             /\ ~Spawns /\ UNCHANGED <<reconnection_state, repVars>>
       /\ monPc = "flag" /\ monPc' # "flag" =>
             /\ Spawns <=> reconnection_state = "NotRunning"
             /\ nodeState' = nodeState]_vars

\* The monitor has marked the Node Down on a list of two broken connections
\* while a repair loop is in progress; its pass is about to end without a
\* new loop.
C20_Witness ==
    /\ monPc = "flag" /\ nodeState = "Down"
    /\ Len(pool) = MaxLive /\ \A i \in 1..Len(pool) : pool[i]
    /\ reconnection_state = "InProgress" /\ tails["InProgress"] = 1

\* ------------------------------------------------- claims: marking Up
\* A finished repair task calls node.mark_up().
MarksUp == tails'["NotRunning"] < tails["NotRunning"] /\ NodeResolves

\* C21: the Node is marked Up only by a repair task whose loop ended on a
\* reconnect_broken() that returned Ok(true), and no task marks the Node Up
\* between a mark-down by the monitor and the return of the next successful
\* reconnect_broken() after it.
C21_Original ==
    [][/\ nodeState' = "Up" /\ nodeState # "Up" => MarksUp
       /\ tails'["NotRunning"] > tails["NotRunning"] =>
             loopPc = "returned" /\ rbResult = "true"
       /\ MarksUp => ~markedDown]_vars

\* --------------------------------------------- claims: repair succeeds
\* C22: with the Pool, the Node and the manager held, a schedule that never
\* ends, no protocol error and dials that do not fail for ever, every repair
\* loop that starts ends, and ends with NotRunning: the flag is NotRunning
\* and the list has desired_size entries when it ends, and its task then
\* marks the Node Up.
C22_RepairSucceeds ==
    /\ (loopPc # "none") ~> (loopPc = "none")
    /\ (tails["NotRunning"] > 0) ~> (tails["NotRunning"] = 0)
    /\ [][/\ loopPc # "none" /\ loopPc' = "none" =>
                /\ reconnection_state' = "NotRunning"
                /\ Len(pool') = desired_size
                /\ rbResult = "true"
                /\ tails'["NotRunning"] = tails["NotRunning"] + 1
          /\ MarksUp => nodeState' = "Up"
          /\ nodeState' # "ForcedDown"]_vars

\* A loop has ended with NotRunning after an attempt that failed; its task
\* has marked the Node Up and the list is full.
C22_Witness ==
    /\ loopPc = "none" /\ loopLog.attempts = MaxDelays
    /\ reconnection_state = "NotRunning"
    /\ tails["NotRunning"] = 0 /\ tails["InProgress"] = 0
    /\ Len(pool) = desired_size /\ desired_size = MaxLive
    /\ nodeState = "Up" /\ ~markedDown

====
